---- MODULE Spec2Model ----
(***************************************************************************)
(* Model of ir40-dbus-final.py: the BLE session of the FNIRSI IR40 laser   *)
(* meter.  main() is one asyncio task, heartbeat_loop() a second one; the  *)
(* BlueZ transport and the user at the keyboard are the environment.       *)
(***************************************************************************)
EXTENDS Integers, Sequences, FiniteSets, TLC

VARIABLES
    mainPc,          \* position of main(): the await it is suspended at
    exitReason,      \* why asyncio.run(main()) ended: "none", "error", "interrupt"
    exitAt,          \* the position main() was at when it ended
    connected,       \* Device1.Connected as BlueZ reports it
    connectReply,    \* reply to Device1.Connect: "none", "ok", "error"
    servicesResolved,\* Device1.ServicesResolved as BlueZ reports it
    objs,            \* the GetManagedObjects snapshot (insertion-ordered dict)
    write_path,      \* local write_path of main()
    notify_path,     \* local notify_path of main()
    callbackRegistered, \* on_val_change registered on the notify proxy
    startNotifyIssued,  \* StartNotify sent to the transport
    notifying,       \* StartNotify acknowledged by the transport
    hbPc,            \* position of heartbeat_loop(): "none" before create_task
    hbElapsed,       \* seconds elapsed of the current asyncio.sleep(25)
    hbExit,          \* how heartbeat_loop ended: "none", "error", "cancelled"
    inflight,        \* WriteValue calls issued and not yet completed
    stdin,           \* lines the user has typed that input() has not consumed
    sinceExit,       \* seconds elapsed since asyncio.run returned
    arrived,         \* every PropertiesChanged signal of the notify characteristic, in arrival order
    pending,         \* the signals received on the bus socket and not yet dispatched
    sink             \* the strings passed to keyboard.type, in call order

vars == <<mainPc, exitReason, exitAt, connected, connectReply, servicesResolved,
          objs, write_path, notify_path, callbackRegistered, startNotifyIssued,
          notifying, hbPc, hbElapsed, hbExit, inflight, stdin, sinceExit,
          arrived, pending, sink>>

(***************************************************************************)
(* Program constants                                                       *)
(***************************************************************************)
NOTIFY_UUID == "0000ee02"
WRITE_UUID == "0000ee03"
HEARTBEAT_PAYLOAD == <<0, 1, 2, 1, 5, 0, 0, 0, 1>>
TRIGGER_PAYLOAD == <<0, 7, 2, 8, 14, 0, 0, 0, 1>>
HEARTBEAT_SLEEP == 25

\* Python's None in a variable that otherwise holds a path; no path is empty
None == << >>

(***************************************************************************)
(* Bounds of the model                                                     *)
(***************************************************************************)
MaxObjs == 2        \* entries in the object-tree snapshot
MaxStdin == 2       \* typed lines buffered ahead of input()
MaxAfterExit == 51  \* seconds observed after the process ended
MaxNotifs == 2      \* notifications the device sends in one session
MaxFrameLen == 18   \* bytes in a notification frame

(***************************************************************************)
(* The object tree.  A path is a sequence of characters; a UUID is a pair  *)
(* of its lower-case text and whether BlueZ reported it in upper case.     *)
(***************************************************************************)
DEVICE_PATH == <<"A">>

PathPool == { <<"A", "/", "x">>, <<"A", "/", "y">>, <<"B", "/", "x">> }

GATT_CHAR == "org.bluez.GattCharacteristic1"
GATT_SERVICE == "org.bluez.GattService1"

EntryKinds ==
    { [iface |-> GATT_CHAR, uuid |-> <<WRITE_UUID, FALSE>>],
      [iface |-> GATT_CHAR, uuid |-> <<WRITE_UUID, TRUE>>],
      [iface |-> GATT_CHAR, uuid |-> <<NOTIFY_UUID, FALSE>>],
      [iface |-> GATT_SERVICE, uuid |-> <<"0000ee00", FALSE>>] }

Entries == { [path |-> p, iface |-> k.iface, uuid |-> k.uuid] : p \in PathPool, k \in EntryKinds }

\* a dict has one entry per key
DistinctPaths(t) == \A i, j \in 1..Len(t) : i # j => t[i].path # t[j].path

Trees == { t \in UNION { [1..n -> Entries] : n \in 0..MaxObjs } : DistinctPaths(t) }

\* str.startswith
StartsWithAnything(p, q) == TRUE
StartsWith(p, q) == Len(q) <= Len(p) /\ SubSeq(p, 1, Len(q)) = q

\* str.lower on a UUID
Lower(u) == <<u[1], FALSE>>

\* the text of a UUID constant of the program (already lower case)
Const(u) == <<u, FALSE>>

\* the body of the for loop of main(), one entry applied to (write_path, notify_path)
ResolveStepKeepFirst(acc, e) ==
    IF e.iface = GATT_CHAR /\ StartsWith(e.path, DEVICE_PATH)
    THEN IF Lower(e.uuid) = Const(WRITE_UUID)
         THEN (IF acc.w = None THEN [acc EXCEPT !.w = e.path] ELSE acc)
         ELSE IF Lower(e.uuid) = Const(NOTIFY_UUID)
         THEN (IF acc.n = None THEN [acc EXCEPT !.n = e.path] ELSE acc)
         ELSE acc
    ELSE acc
ResolveStep(acc, e) ==
    IF e.iface = GATT_CHAR /\ StartsWith(e.path, DEVICE_PATH)
    THEN IF Lower(e.uuid) = Const(WRITE_UUID) THEN [acc EXCEPT !.w = e.path]
         ELSE IF Lower(e.uuid) = Const(NOTIFY_UUID) THEN [acc EXCEPT !.n = e.path]
         ELSE acc
    ELSE acc

RECURSIVE ResolveFrom(_, _, _)
ResolveFrom(t, i, acc) ==
    IF i > Len(t) THEN acc ELSE ResolveFrom(t, i + 1, ResolveStep(acc, t[i]))

\* the for loop of main() over objs.items()
Resolve(t) == ResolveFrom(t, 1, [w |-> None, n |-> None])

\* bus.introspect / get_proxy_object on a path: a None path raises
IntrospectOkAnyPath(path) == TRUE
IntrospectOk(path) == path # None

(***************************************************************************)
(* Session states, read off the position of main()                         *)
(***************************************************************************)
Armed == mainPc \in {"input", "trig_write"}
Exited == mainPc = "exited"

HbWrite == [task |-> "heartbeat", payload |-> HEARTBEAT_PAYLOAD]
TrigWrite == [task |-> "main", payload |-> TRIGGER_PAYLOAD]

Init ==
    /\ mainPc = "get_connected"
    /\ exitReason = "none"
    /\ exitAt = "none"
    /\ connected \in BOOLEAN
    /\ servicesResolved \in BOOLEAN
    /\ servicesResolved => connected
    /\ connectReply = "none"
    /\ objs = << >>
    /\ write_path = None
    /\ notify_path = None
    /\ callbackRegistered = FALSE
    /\ startNotifyIssued = FALSE
    /\ notifying = FALSE
    /\ hbPc = "none"
    /\ hbElapsed = 0
    /\ hbExit = "none"
    /\ inflight = {}
    /\ stdin = 0
    /\ sinceExit = 0
    /\ arrived = << >>
    /\ pending = << >>
    /\ sink = << >>

(***************************************************************************)
(* asyncio.run: when main() ends, every remaining task is cancelled; the   *)
(* bare except of heartbeat_loop catches the CancelledError and breaks.    *)
(***************************************************************************)
CancelAllTasksLeak(pc) == pc
CancelAllTasks(pc) == IF pc = "none" THEN "none" ELSE "stopped"

Exit(reason) ==
    /\ mainPc' = "exited"
    /\ exitReason' = reason
    /\ exitAt' = mainPc
    /\ hbPc' = CancelAllTasks(hbPc)
    /\ hbExit' = IF hbPc' = "stopped" /\ hbPc # "stopped" THEN "cancelled" ELSE hbExit
    /\ hbElapsed' = IF hbPc' = "sleeping" THEN hbElapsed ELSE 0   \* the sleep's timer goes with the task


(***************************************************************************)
(* parse_distance_mm and on_val_change                                     *)
(***************************************************************************)
Notif == <<arrived, pending, sink>>

\* the None that parse_distance_mm returns instead of a distance
NoMm == -1

\* len(data) >= 17
LengthOkOffByOne(data) == Len(data) >= 16
LengthOk(data) == Len(data) >= 17

\* data[0] == 0x00 and data[2] == 0x02 (Python indexes from 0)
HeaderOkFirstByteOnly(data) == data[1] = 0
HeaderOk(data) == data[1] = 0 /\ data[3] = 2

\* the slice data[lo:hi], clipped to the data as Python clips it
Slice(data, lo, hi) ==
    IF lo >= Len(data) THEN << >>
    ELSE SubSeq(data, lo + 1, IF hi <= Len(data) THEN hi ELSE Len(data))

\* int.from_bytes(b, "big")
RECURSIVE FromBytesBig(_)
FromBytesBig(b) ==
    IF b = << >> THEN 0
    ELSE 256 * FromBytesBig(SubSeq(b, 1, Len(b) - 1)) + b[Len(b)]

\* int.from_bytes(b, "little")
RECURSIVE FromBytesLittle(_)
FromBytesLittle(b) ==
    IF b = << >> THEN 0
    ELSE b[1] + 256 * FromBytesLittle(SubSeq(b, 2, Len(b)))

\* line 25: dist_mm
DistanceFieldLittle(data) == FromBytesLittle(Slice(data, 14, 16))
DistanceField(data) == FromBytesBig(Slice(data, 14, 16))

\* line 28: dist_mm > 0
AcceptedNonNegative(d) == d >= 0
Accepted(d) == d > 0

parse_distance_mm(data) ==
    IF LengthOk(data) /\ HeaderOk(data)
    THEN IF Accepted(DistanceField(data)) THEN DistanceField(data) ELSE NoMm
    ELSE NoMm

\* str(mm) of a non-negative integer: its decimal digits
RECURSIVE Str(_)
Str(n) == IF n < 10 THEN <<n>> ELSE Str(n \div 10) \o <<n % 10>>

\* `if mm:` is false for None and for 0
TruthyNotNone(mm) == mm # NoMm
Truthy(mm) == mm # NoMm /\ mm # 0

\* the `changed` dict of one PropertiesChanged signal
ValueChanged(frame) == [keys |-> {"Value"}, Value |-> frame]
OtherChanged == [keys |-> {"Notifying"}, Value |-> << >>]

\* on_val_change: what the callback adds to the keyboard output
OnValChangeTypesTwice(changed) ==
    IF "Value" \in changed.keys /\ TruthyNotNone(parse_distance_mm(changed.Value))
    THEN <<Str(parse_distance_mm(changed.Value)), Str(parse_distance_mm(changed.Value))>>
    ELSE << >>
on_val_change(changed) ==
    IF "Value" \in changed.keys /\ Truthy(parse_distance_mm(changed.Value))
    THEN <<Str(parse_distance_mm(changed.Value))>>
    ELSE << >>

\* a frame with the bytes the decoder looks at set, and one filler for the rest
Frame(len, b0, b2, b14, b15, b16, fill) ==
    [i \in 1..len |-> CASE i = 1 -> b0
                        [] i = 3 -> b2
                        [] i = 15 -> b14
                        [] i = 16 -> b15
                        [] i = 17 -> b16
                        [] OTHER -> fill]

ByteSamples == {0, 2, 5, 133}

\* the frames the decoder is exercised on
DecodeFrames ==
    { Frame(len, b0, b2, b14, b15, b16, fill) :
        len \in 0..MaxFrameLen, b0 \in {0, 2}, b2 \in {0, 2},
        b14 \in ByteSamples, b15 \in ByteSamples, b16 \in {0, 5}, fill \in {0, 133} }

\* the frames the device sends during a session: 05 85 -> 1413, 00 05 -> 5,
\* a zero distance, and a signal that carries no Value
SessionSignals ==
    { ValueChanged(Frame(17, 0, 2, 5, 133, 0, 0)),
      ValueChanged(Frame(17, 0, 2, 0, 5, 0, 0)),
      ValueChanged(Frame(17, 0, 2, 0, 0, 0, 0)),
      OtherChanged }

MainLocals == <<objs, write_path, notify_path, callbackRegistered, startNotifyIssued, notifying>>
Transport == <<connected, connectReply, servicesResolved>>
Heartbeat == <<hbPc, hbElapsed, hbExit>>
Running == <<exitReason, exitAt>>

(***************************************************************************)
(* main()                                                                  *)
(***************************************************************************)
\* lines 80-82: get_connected(); when not connected, call_connect() is issued
GetConnected ==
    /\ mainPc = "get_connected"
    /\ mainPc' = IF connected THEN "poll_check" ELSE "connecting"
    /\ UNCHANGED Notif
    /\ UNCHANGED <<Running, Transport, MainLocals, Heartbeat, inflight, stdin, sinceExit>>

\* line 82: the awaited call_connect() returns, or raises the transport's error
ConnectResume ==
    /\ mainPc = "connecting"
    /\ connectReply # "none"
    /\ IF connectReply = "ok"
       THEN /\ mainPc' = "poll_check"
            /\ UNCHANGED <<Running, Heartbeat>>
       ELSE Exit("error")
    /\ UNCHANGED Notif
    /\ UNCHANGED <<Transport, MainLocals, inflight, stdin, sinceExit>>

\* line 84: the loop condition, get_services_resolved()
PollCheck ==
    /\ mainPc = "poll_check"
    /\ mainPc' = IF servicesResolved THEN "get_objs" ELSE "poll_sleep"
    /\ UNCHANGED Notif
    /\ UNCHANGED <<Running, Transport, MainLocals, Heartbeat, inflight, stdin, sinceExit>>

\* line 85: asyncio.sleep(0.5) elapses
PollSleep ==
    /\ mainPc = "poll_sleep"
    /\ mainPc' = "poll_check"
    /\ UNCHANGED Notif
    /\ UNCHANGED <<Running, Transport, MainLocals, Heartbeat, inflight, stdin, sinceExit>>

\* lines 88-98: the snapshot and the resolution of the two paths
GetManagedObjects ==
    /\ mainPc = "get_objs"
    /\ \E t \in Trees :
          /\ objs' = t
          /\ write_path' = Resolve(t).w
          /\ notify_path' = Resolve(t).n
    /\ mainPc' = "notify_intro"
    /\ UNCHANGED Notif
    /\ UNCHANGED <<Running, Transport, callbackRegistered, startNotifyIssued, notifying,
                   Heartbeat, inflight, stdin, sinceExit>>

\* lines 101-115: the notify proxy, the callback, and StartNotify is issued
NotifyIntrospect ==
    /\ mainPc = "notify_intro"
    /\ IF IntrospectOk(notify_path)
       THEN /\ callbackRegistered' = TRUE
            /\ startNotifyIssued' = TRUE
            /\ mainPc' = "start_notify"
            /\ UNCHANGED <<Running, Heartbeat>>
       ELSE /\ Exit("error")
            /\ UNCHANGED <<callbackRegistered, startNotifyIssued>>
    /\ UNCHANGED Notif
    /\ UNCHANGED <<Transport, objs, write_path, notify_path, notifying, inflight, stdin, sinceExit>>

\* line 115: StartNotify is acknowledged
StartNotifyOk ==
    /\ mainPc = "start_notify"
    /\ notifying' = TRUE
    /\ mainPc' = "write_intro"
    /\ UNCHANGED Notif
    /\ UNCHANGED <<Running, Transport, objs, write_path, notify_path, callbackRegistered,
                   startNotifyIssued, Heartbeat, inflight, stdin, sinceExit>>

\* lines 118-126: the write proxy, create_task(heartbeat_loop), READY
WriteIntrospect ==
    /\ mainPc = "write_intro"
    /\ IF IntrospectOk(write_path)
       THEN /\ hbPc' = "start"
            /\ mainPc' = "input"
            /\ UNCHANGED <<Running, hbElapsed, hbExit>>
       ELSE Exit("error")
    /\ UNCHANGED Notif
    /\ UNCHANGED <<Transport, MainLocals, inflight, stdin, sinceExit>>

\* lines 129-130: input() returns a typed line and the trigger write is issued
TriggerGuardAnyState == mainPc \in {"start_notify", "write_intro", "input"} /\ write_path # None
TriggerGuard == mainPc = "input"

ReadInputAndTrigger ==
    /\ TriggerGuard
    /\ stdin > 0
    /\ stdin' = stdin - 1
    /\ inflight' = inflight \cup {TrigWrite}
    /\ mainPc' = "trig_write"
    /\ UNCHANGED Notif
    /\ UNCHANGED <<Running, Transport, MainLocals, Heartbeat, sinceExit>>

\* line 130: the trigger write completes and the loop goes back to input()
TriggerWriteOk ==
    /\ mainPc = "trig_write"
    /\ TrigWrite \in inflight
    /\ inflight' = inflight \ {TrigWrite}
    /\ mainPc' = "input"
    /\ UNCHANGED Notif
    /\ UNCHANGED <<Running, Transport, MainLocals, Heartbeat, stdin, sinceExit>>

\* any awaited D-Bus call other than Connect raises the transport's error
AwaitsTransport == {"get_connected", "poll_check", "get_objs", "start_notify", "trig_write"}

TransportError ==
    /\ mainPc \in AwaitsTransport
    /\ Exit("error")
    /\ inflight' = inflight \ {TrigWrite}
    /\ UNCHANGED Notif
    /\ UNCHANGED <<Transport, MainLocals, stdin, sinceExit>>

\* lines 133-136: Ctrl-C ends asyncio.run
KeyboardInterrupt ==
    /\ ~Exited
    /\ Exit("interrupt")
    /\ UNCHANGED Notif
    /\ UNCHANGED <<Transport, MainLocals, inflight, stdin, sinceExit>>

(***************************************************************************)
(* heartbeat_loop()                                                        *)
(***************************************************************************)
\* asyncio.sleep(25) has elapsed
SleepDoneAtOnce(e) == TRUE
SleepDone(e) == e = HEARTBEAT_SLEEP

\* whether a task holds the event loop: input() runs in an executor thread,
\* and every other step of main() and heartbeat_loop() is an await
LoopBlockedByInput == mainPc = "input"
LoopBlocked == FALSE

\* line 65: the heartbeat write is issued
HbIssue ==
    /\ ~LoopBlocked
    /\ \/ hbPc = "start"
       \/ hbPc = "sleeping" /\ SleepDone(hbElapsed)
    /\ hbPc' = "writing"
    /\ inflight' = inflight \cup {HbWrite}
    /\ UNCHANGED Notif
    /\ UNCHANGED <<mainPc, Running, Transport, MainLocals, hbElapsed, hbExit, stdin, sinceExit>>

\* lines 65-66: the write returns and asyncio.sleep(25) starts
HbWriteOk ==
    /\ hbPc = "writing"
    /\ HbWrite \in inflight
    /\ inflight' = inflight \ {HbWrite}
    /\ hbPc' = "sleeping"
    /\ hbElapsed' = 0
    /\ UNCHANGED Notif
    /\ UNCHANGED <<mainPc, Running, Transport, MainLocals, hbExit, stdin, sinceExit>>

\* lines 67-68: the write raises, the bare except breaks the loop
HbWriteErrorRetry ==
    /\ hbPc = "writing"
    /\ HbWrite \in inflight
    /\ inflight' = inflight \ {HbWrite}
    /\ hbPc' = "start"
    /\ hbExit' = "error"
    /\ UNCHANGED Notif
    /\ UNCHANGED <<mainPc, Running, Transport, MainLocals, hbElapsed, stdin, sinceExit>>

HbWriteError ==
    /\ hbPc = "writing"
    /\ HbWrite \in inflight
    /\ inflight' = inflight \ {HbWrite}
    /\ hbPc' = "stopped"
    /\ hbExit' = "error"
    /\ UNCHANGED Notif
    /\ UNCHANGED <<mainPc, Running, Transport, MainLocals, hbElapsed, stdin, sinceExit>>

(***************************************************************************)
(* The environment: BlueZ, the clock, the user                             *)
(***************************************************************************)
\* Device1.Connect is answered
ConnectReplies ==
    /\ mainPc = "connecting"
    /\ connectReply = "none"
    /\ \E r \in {"ok", "error"} :
          /\ connectReply' = r
          /\ connected' = (r = "ok")
    /\ UNCHANGED Notif
    /\ UNCHANGED <<mainPc, Running, servicesResolved, MainLocals, Heartbeat, inflight, stdin, sinceExit>>

\* BlueZ finishes GATT discovery
ServicesResolve ==
    /\ connected
    /\ ~servicesResolved
    /\ servicesResolved' = TRUE
    /\ UNCHANGED Notif
    /\ UNCHANGED <<mainPc, Running, connected, connectReply, MainLocals, Heartbeat, inflight, stdin, sinceExit>>

\* a write whose task is gone completes on the wire
WriteDrain ==
    /\ \E w \in inflight :
          /\ \/ w.task = "heartbeat" /\ hbPc # "writing"
             \/ w.task = "main" /\ mainPc # "trig_write"
          /\ inflight' = inflight \ {w}
    /\ UNCHANGED Notif
    /\ UNCHANGED <<mainPc, Running, Transport, MainLocals, Heartbeat, stdin, sinceExit>>

\* one second passes
Tick ==
    /\ \/ hbPc = "sleeping" /\ hbElapsed < HEARTBEAT_SLEEP
       \/ Exited /\ sinceExit < MaxAfterExit
    /\ hbElapsed' = IF hbPc = "sleeping" /\ hbElapsed < HEARTBEAT_SLEEP THEN hbElapsed + 1 ELSE hbElapsed
    /\ sinceExit' = IF Exited /\ sinceExit < MaxAfterExit THEN sinceExit + 1 ELSE sinceExit
    /\ UNCHANGED Notif
    /\ UNCHANGED <<mainPc, Running, Transport, MainLocals, hbPc, hbExit, inflight, stdin>>

\* the user presses ENTER
PressEnter ==
    /\ stdin < MaxStdin
    /\ stdin' = stdin + 1
    /\ UNCHANGED Notif
    /\ UNCHANGED <<mainPc, Running, Transport, MainLocals, Heartbeat, inflight, sinceExit>>

\* the device notifies: BlueZ emits PropertiesChanged, which lands on the bus socket
Notify ==
    /\ startNotifyIssued
    /\ ~Exited
    /\ Len(arrived) < MaxNotifs
    /\ \E c \in SessionSignals :
          /\ arrived' = Append(arrived, c)
          /\ pending' = Append(pending, c)
    /\ UNCHANGED <<mainPc, Running, Transport, MainLocals, Heartbeat, inflight, stdin, sinceExit, sink>>

\* which pending signal the bus reads next: the socket is first in, first out
NextSignalLast(q) == Len(q)
NextSignal(q) == 1

\* lines 106-114: the event loop reads one signal and calls on_val_change
Dispatch ==
    /\ callbackRegistered
    /\ ~Exited
    /\ ~LoopBlocked
    /\ pending # << >>
    /\ sink' = sink \o on_val_change(pending[NextSignal(pending)])
    /\ pending' = [i \in 1..(Len(pending) - 1) |->
                      IF i < NextSignal(pending) THEN pending[i] ELSE pending[i + 1]]
    /\ UNCHANGED <<mainPc, Running, Transport, MainLocals, Heartbeat, inflight, stdin, sinceExit, arrived>>

MainStep ==
    \/ GetConnected
    \/ ConnectResume
    \/ PollCheck
    \/ PollSleep
    \/ GetManagedObjects
    \/ NotifyIntrospect
    \/ StartNotifyOk
    \/ WriteIntrospect
    \/ ReadInputAndTrigger
    \/ TriggerWriteOk

HeartbeatStep ==
    \/ HbIssue
    \/ HbWriteOk

Next ==
    \/ GetConnected
    \/ ConnectResume
    \/ PollCheck
    \/ PollSleep
    \/ GetManagedObjects
    \/ NotifyIntrospect
    \/ StartNotifyOk
    \/ WriteIntrospect
    \/ ReadInputAndTrigger
    \/ TriggerWriteOk
    \/ TransportError
    \/ KeyboardInterrupt
    \/ HbIssue
    \/ HbWriteOk
    \/ HbWriteError
    \/ ConnectReplies
    \/ ServicesResolve
    \/ WriteDrain
    \/ Tick
    \/ PressEnter

Spec == Init /\ [][Next]_vars

\* the event loop runs every task that is ready; the transport and the user owe nothing
FairSpec == Init /\ [][Next]_vars /\ WF_vars(MainStep) /\ WF_vars(HeartbeatStep)

(***************************************************************************)
(* The session from the point where the object tree has been read, with    *)
(* the device notifying                                                    *)
(***************************************************************************)
BothCharacteristics ==
    << [path |-> <<"A", "/", "x">>, iface |-> GATT_CHAR, uuid |-> <<NOTIFY_UUID, FALSE>>],
       [path |-> <<"A", "/", "y">>, iface |-> GATT_CHAR, uuid |-> <<WRITE_UUID, FALSE>>] >>
NotifyCharacteristicOnly ==
    << [path |-> <<"A", "/", "x">>, iface |-> GATT_CHAR, uuid |-> <<NOTIFY_UUID, FALSE>>] >>

NotifyInit ==
    /\ mainPc = "notify_intro"
    /\ exitReason = "none"
    /\ exitAt = "none"
    /\ connected = TRUE
    /\ servicesResolved = TRUE
    /\ connectReply = "none"
    /\ objs \in {BothCharacteristics, NotifyCharacteristicOnly}
    /\ write_path = Resolve(objs).w
    /\ notify_path = Resolve(objs).n
    /\ callbackRegistered = FALSE
    /\ startNotifyIssued = FALSE
    /\ notifying = FALSE
    /\ hbPc = "none"
    /\ hbElapsed = 0
    /\ hbExit = "none"
    /\ inflight = {}
    /\ stdin = 0
    /\ sinceExit = 0
    /\ arrived = << >>
    /\ pending = << >>
    /\ sink = << >>

NotifyNext ==
    \/ NotifyIntrospect
    \/ StartNotifyOk
    \/ WriteIntrospect
    \/ ReadInputAndTrigger
    \/ TriggerWriteOk
    \/ TransportError
    \/ KeyboardInterrupt
    \/ HbIssue
    \/ HbWriteOk
    \/ HbWriteError
    \/ WriteDrain
    \/ Tick
    \/ PressEnter
    \/ Notify
    \/ Dispatch

NotifySpec == NotifyInit /\ [][NotifyNext]_vars

(***************************************************************************)
(* The decoder on its own: one signal is waiting and the callback runs     *)
(***************************************************************************)
DecodeInit ==
    /\ mainPc = "start_notify"
    /\ exitReason = "none"
    /\ exitAt = "none"
    /\ connected = TRUE
    /\ servicesResolved = TRUE
    /\ connectReply = "none"
    /\ objs = BothCharacteristics
    /\ write_path = Resolve(objs).w
    /\ notify_path = Resolve(objs).n
    /\ callbackRegistered = TRUE
    /\ startNotifyIssued = TRUE
    /\ notifying = FALSE
    /\ hbPc = "none"
    /\ hbElapsed = 0
    /\ hbExit = "none"
    /\ inflight = {}
    /\ stdin = 0
    /\ sinceExit = 0
    /\ \E f \in DecodeFrames :
          /\ arrived = <<ValueChanged(f)>>
          /\ pending = <<ValueChanged(f)>>
    /\ sink = << >>

DecodeNext == Dispatch

DecodeSpec == DecodeInit /\ [][DecodeNext]_vars

TypeOK ==
    /\ mainPc \in {"get_connected", "connecting", "poll_check", "poll_sleep", "get_objs",
                   "notify_intro", "start_notify", "write_intro", "input", "trig_write", "exited"}
    /\ exitReason \in {"none", "error", "interrupt"}
    /\ connected \in BOOLEAN
    /\ connectReply \in {"none", "ok", "error"}
    /\ servicesResolved \in BOOLEAN
    /\ objs \in Trees
    /\ write_path \in PathPool \cup {None}
    /\ notify_path \in PathPool \cup {None}
    /\ hbPc \in {"none", "start", "writing", "sleeping", "stopped"}
    /\ hbElapsed \in 0..HEARTBEAT_SLEEP
    /\ hbExit \in {"none", "error", "cancelled"}
    /\ inflight \subseteq {HbWrite, TrigWrite}
    /\ stdin \in 0..MaxStdin
    /\ sinceExit \in 0..MaxAfterExit


(***************************************************************************)
(* Vocabulary of the claims                                                *)
(***************************************************************************)
\* the entries of a snapshot that match a target UUID under the device path
MatchPaths(t, uuid) ==
    { t[i].path : i \in { j \in 1..Len(t) : /\ t[j].iface = GATT_CHAR
                                             /\ StartsWith(t[j].path, DEVICE_PATH)
                                             /\ Lower(t[j].uuid) = Const(uuid) } }

\* this step puts a write of the task on the wire
Issues(w) == w \in inflight' /\ w \notin inflight

PollStates == {"poll_check", "poll_sleep"}

(***************************************************************************)
(* C1..C10                                                                 *)
(***************************************************************************)
\* C1: whenever the session is Armed, write_path and notify_path each hold the
\* path of a matching characteristic of the snapshot and StartNotify has been
\* acknowledged.
C1_ArmedOnlyWhenResolvedAndSubscribed ==
    Armed => /\ write_path \in MatchPaths(objs, WRITE_UUID)
             /\ notify_path \in MatchPaths(objs, NOTIFY_UUID)
             /\ startNotifyIssued
             /\ notifying

C1_Witness == Armed /\ hbPc = "writing" /\ notifying

\* C2: when the snapshot has no match for the write UUID or none for the notify
\* UUID, StartNotify is never issued.
C2_NoStartNotifyWhenCharacteristicMissing ==
    startNotifyIssued => /\ MatchPaths(objs, WRITE_UUID) # {}
                         /\ MatchPaths(objs, NOTIFY_UUID) # {}

C4_HeartbeatErrorEndsArmed ==
    hbExit = "error" => ~Armed

\* C5: once a heartbeat write has failed, the loop is over and no step issues a
\* heartbeat write again.
C5_HeartbeatFailsFast ==
    [][hbExit = "error" => (hbPc = "stopped" /\ hbPc' = "stopped" /\ ~Issues(HbWrite))]_vars

C5_Witness == hbExit = "error" /\ hbPc = "stopped" /\ mainPc = "trig_write"

\* C6: once asyncio.run has ended, by interrupt or by an error, the heartbeat
\* task is not running and no step issues a heartbeat write, however much time passes.
C6_NoHeartbeatAfterExit ==
    [][Exited => (hbPc \in {"none", "stopped"} /\ ~Issues(HbWrite))]_vars

C6_Witness ==
    /\ Exited
    /\ exitAt = "trig_write"
    /\ exitReason = "error"
    /\ hbExit = "cancelled"
    /\ sinceExit > 2 * HEARTBEAT_SLEEP

\* C7: every heartbeat write but the first is issued from a sleep whose full
\* interval has elapsed, and a step that issues or completes a trigger write
\* leaves the heartbeat task and its timer as they are.
C7_OneHeartbeatPerInterval ==
    [][/\ Issues(HbWrite) =>
            \/ hbPc = "start" /\ hbExit = "none"
            \/ hbPc = "sleeping" /\ hbElapsed = HEARTBEAT_SLEEP
       /\ (Armed /\ Armed' /\ mainPc' # mainPc) => UNCHANGED <<hbPc, hbElapsed, hbExit>>]_vars

C7_Witness ==
    /\ hbPc = "writing"
    /\ hbElapsed = HEARTBEAT_SLEEP
    /\ TrigWrite \in inflight
    /\ Armed

\* C8: at most one write to the write characteristic is in flight.
C8_WritesSerialized ==
    Cardinality(inflight) <= 1

\* C9: the poll for services resolved always comes to an end.
C9_PollEnds ==
    (mainPc \in PollStates) ~> (mainPc \notin PollStates)

\* C10: a connect request always comes to an end, and a session ended by the
\* connect has issued no StartNotify and no write.
C10_ConnectEnds ==
    /\ (mainPc = "connecting") ~> (mainPc # "connecting")
    /\ [](exitAt = "connecting" => (~startNotifyIssued /\ inflight = {} /\ hbPc = "none"))


(***************************************************************************)
(* Vocabulary of C11..C20: the decoder and the resolver as specified       *)
(***************************************************************************)
\* the distance a frame carries when it is a measurement frame, else the rejection
SpecDecode(f) ==
    IF Len(f) < 17 THEN [kind |-> "Rejected", reason |-> "TooShort", value |-> 0]
    ELSE IF f[1] # 0 \/ f[3] # 2
    THEN [kind |-> "Rejected", reason |-> "NotAMeasurementFrame", value |-> 0]
    ELSE IF 256 * f[15] + f[16] = 0
    THEN [kind |-> "Rejected", reason |-> "ZeroValue", value |-> 0]
    ELSE [kind |-> "Measurement", reason |-> "", value |-> 256 * f[15] + f[16]]

\* what the sink is owed for one signal
Owed(c) ==
    IF "Value" \in c.keys /\ SpecDecode(c.Value).kind = "Measurement"
    THEN <<Str(SpecDecode(c.Value).value)>>
    ELSE << >>

RECURSIVE OwedAll(_)
OwedAll(cs) == IF cs = << >> THEN << >> ELSE Owed(Head(cs)) \o OwedAll(Tail(cs))

\* the number a typed string reads as
RECURSIVE IntOf(_)
IntOf(digits) ==
    IF digits = << >> THEN 0
    ELSE 10 * IntOf(SubSeq(digits, 1, Len(digits) - 1)) + digits[Len(digits)]

Dispatches == Len(pending') < Len(pending)

\* the frame the decoder specification was started on, and the callback having run
TheFrame == arrived[1].Value
Decoded == pending = << >>

\* descendant of the device path: the device path, a slash, and more
Descendant(p) ==
    /\ Len(p) > Len(DEVICE_PATH) + 1
    /\ \A i \in 1..Len(DEVICE_PATH) : p[i] = DEVICE_PATH[i]
    /\ p[Len(DEVICE_PATH) + 1] = "/"

\* positions of the snapshot that hold a characteristic of the device with the UUID
MatchIndexes(t, uuid) ==
    { i \in 1..Len(t) : /\ t[i].iface = GATT_CHAR
                        /\ Descendant(t[i].path)
                        /\ t[i].uuid[1] = uuid }

Min(S) == CHOOSE x \in S : \A y \in S : x <= y
Max(S) == CHOOSE x \in S : \A y \in S : x >= y

FirstMatch(t, uuid) ==
    IF MatchIndexes(t, uuid) = {} THEN None ELSE t[Min(MatchIndexes(t, uuid))].path
LastMatch(t, uuid) ==
    IF MatchIndexes(t, uuid) = {} THEN None ELSE t[Max(MatchIndexes(t, uuid))].path

(***************************************************************************)
(* C11..C20                                                                *)
(***************************************************************************)
\* C11: a step that dispatches a signal appends to the sink exactly the one
\* string owed for it (the decoded distance, or nothing for a rejected frame or
\* a signal without Value) and changes nothing of the session; no other step
\* touches the sink.
C11_SinkOncePerMeasurement ==
    [][/\ Dispatches =>
            /\ sink' = sink \o Owed(pending[1])
            /\ UNCHANGED <<mainPc, Running, Transport, MainLocals, Heartbeat, inflight, stdin>>
       /\ sink' # sink => Dispatches]_vars

C11_Witness ==
    /\ Len(arrived) = 2
    /\ pending = << >>
    /\ SpecDecode(arrived[1].Value).reason = "ZeroValue"
    /\ sink = <<Str(1413)>>

\* C12: while the session is Armed (main waiting in input() or on its trigger
\* write) a pending notification can be dispatched and a due heartbeat write
\* can be issued.
C12_TriggerPathDoesNotBlock ==
    Armed => /\ pending # << >> => ENABLED Dispatch
             /\ (hbPc = "start" \/ (hbPc = "sleeping" /\ hbElapsed = HEARTBEAT_SLEEP))
                    => ENABLED HbIssue

C12_Witness ==
    /\ mainPc = "input"
    /\ stdin = 0
    /\ pending # << >>
    /\ hbPc = "sleeping"
    /\ hbElapsed = HEARTBEAT_SLEEP

\* C13: a frame shorter than 17 bytes decodes to None and types nothing.
C13_ShortFrameRejected ==
    Len(TheFrame) < 17 =>
        /\ parse_distance_mm(TheFrame) = NoMm
        /\ Decoded => sink = << >>

C13_Witness ==
    /\ Decoded
    /\ Len(TheFrame) = 16
    /\ TheFrame[1] = 0 /\ TheFrame[3] = 2
    /\ TheFrame[15] = 5 /\ TheFrame[16] = 133

\* C14: a frame of 17 bytes or more whose byte 0 is not 0x00 or whose byte 2 is
\* not 0x02 decodes to None and types nothing.
C14_WrongHeaderRejected ==
    (Len(TheFrame) >= 17 /\ (TheFrame[1] # 0 \/ TheFrame[3] # 2)) =>
        /\ parse_distance_mm(TheFrame) = NoMm
        /\ Decoded => sink = << >>

C14_Witness ==
    /\ Decoded
    /\ Len(TheFrame) >= 17
    /\ TheFrame[1] = 0 /\ TheFrame[3] # 2
    /\ TheFrame[15] = 5 /\ TheFrame[16] = 133

\* C15: a measurement frame whose bytes 14 and 15 are not both zero decodes to
\* 256 * byte14 + byte15, whatever its other bytes are, and that number is typed.
C15_BigEndianDistance ==
    (/\ Len(TheFrame) >= 17
     /\ TheFrame[1] = 0 /\ TheFrame[3] = 2
     /\ ~(TheFrame[15] = 0 /\ TheFrame[16] = 0)) =>
        /\ parse_distance_mm(TheFrame) = 256 * TheFrame[15] + TheFrame[16]
        /\ Decoded => (Len(sink) = 1 /\ IntOf(sink[1]) = 256 * TheFrame[15] + TheFrame[16])

C15_Witness ==
    /\ Decoded
    /\ Len(TheFrame) = 18
    /\ TheFrame[15] = 5 /\ TheFrame[16] = 133 /\ TheFrame[17] = 5 /\ TheFrame[18] = 133
    /\ sink = << <<1, 4, 1, 3>> >>

\* C16: a measurement frame whose distance field is zero decodes to None and
\* types nothing, and every string typed reads as a number of at least 1.
C16_ZeroRejected ==
    /\ (/\ Len(TheFrame) >= 17
        /\ TheFrame[1] = 0 /\ TheFrame[3] = 2
        /\ TheFrame[15] = 0 /\ TheFrame[16] = 0) =>
            /\ parse_distance_mm(TheFrame) = NoMm
            /\ Decoded => sink = << >>
    /\ parse_distance_mm(TheFrame) # 0
    /\ \A i \in 1..Len(sink) : IntOf(sink[i]) >= 1

C16_Witness ==
    /\ Decoded
    /\ Len(TheFrame) = 17
    /\ TheFrame[1] = 0 /\ TheFrame[3] = 2
    /\ TheFrame[15] = 0 /\ TheFrame[16] = 0 /\ TheFrame[17] = 5
    /\ sink = << >>

\* C17 as stated: of several matching characteristics the first of the
\* enumeration is selected.
C17_FirstMatchWins ==
    mainPc # "get_objs" =>
        /\ write_path = FirstMatch(objs, WRITE_UUID)
        /\ notify_path = FirstMatch(objs, NOTIFY_UUID)

\* C17 as amended: of several matching characteristics the last of the
\* enumeration is selected, for the write UUID and the notify UUID alike.
C17_LastMatchWins ==
    mainPc # "get_objs" =>
        /\ write_path = LastMatch(objs, WRITE_UUID)
        /\ notify_path = LastMatch(objs, NOTIFY_UUID)

C17_Witness ==
    /\ mainPc = "notify_intro"
    /\ Cardinality(MatchIndexes(objs, WRITE_UUID)) = 2
    /\ write_path = objs[2].path

\* C18: with no descendant of the device path in the snapshot both paths are
\* None; with exactly one match for each UUID the two paths are those matches;
\* a selected path is always a characteristic entry of the snapshot below the
\* device path.
C18_ResolverSelectsDeviceCharacteristics ==
    /\ (\A i \in 1..Len(objs) : ~Descendant(objs[i].path)) =>
            (write_path = None /\ notify_path = None)
    /\ (/\ Cardinality(MatchIndexes(objs, WRITE_UUID)) = 1
        /\ Cardinality(MatchIndexes(objs, NOTIFY_UUID)) = 1) =>
            /\ \E i \in MatchIndexes(objs, WRITE_UUID) : write_path = objs[i].path
            /\ \E i \in MatchIndexes(objs, NOTIFY_UUID) : notify_path = objs[i].path
    /\ \A p \in {write_path, notify_path} \ {None} :
            \E i \in 1..Len(objs) : /\ objs[i].path = p
                                    /\ objs[i].iface = GATT_CHAR
                                    /\ Descendant(p)

C18_Witness ==
    /\ mainPc = "notify_intro"
    /\ Len(objs) = 2
    /\ ~Descendant(objs[1].path)
    /\ objs[1].iface = GATT_CHAR /\ objs[1].uuid[1] = WRITE_UUID
    /\ objs[2].uuid[1] = NOTIFY_UUID
    /\ write_path = None
    /\ notify_path = objs[2].path

\* C19: the sink holds, in arrival order, exactly what is owed for the signals
\* dispatched so far, and the signals still pending are the rest of the
\* arrivals in arrival order.
C19_ArrivalOrderPreserved ==
    LET n == Len(arrived) - Len(pending) IN
        /\ n >= 0
        /\ sink = OwedAll(SubSeq(arrived, 1, n))
        /\ pending = SubSeq(arrived, n + 1, Len(arrived))

C19_Witness ==
    /\ Len(sink) = 2
    /\ sink[1] = Str(1413)
    /\ sink[2] = Str(5)
    /\ Armed

\* C20: the callback is registered by the time StartNotify is issued, and the
\* sink is written only by steps taken while the session is Armed.
C20_SinkOnlyWhileArmed ==
    [][/\ startNotifyIssued' => callbackRegistered'
       /\ sink' # sink => Armed]_vars

====
